---- MODULE Spec2Model ----
(***************************************************************************)
(* cloudwatch_dump.py: one discovery -> batch query -> correlate -> write  *)
(* cycle.  Time is counted in minutes.  The CloudWatch provider (boto3)    *)
(* and the clock are the environment; their answers are chosen             *)
(* nondeterministically from small sets.                                   *)
(***************************************************************************)
EXTENDS Integers, Sequences, FiniteSets, TLC

VARIABLES
    options,          \* parsed command line (argparse Namespace)
    clock,            \* what RichDateTime.now() returns, in minutes
    pages,            \* the provider's list-metrics pages, in page order
    tokenKey,         \* the response key under which the provider returns its token
    pc,               \* position of the running function
    window,           \* (start, end) returned by get_time_range
    buf,              \* get_metrics: accumulated metrics
    next_token,       \* get_metrics: token to send on the next call
    metrics,          \* value returned by get_metrics / argument of get_data
    statistics_list,  \* statistics passed to get_data
    metric_data,      \* get_data: the query batch
    results,          \* data['MetricDataResults'] of the provider response
    data,             \* value returned by get_data
    file,             \* the snapshot file
    printed,          \* query parameters printed in check mode
    exc,              \* exception that ended the run ("None" when none)
    log               \* provider calls issued so far, in order

vars == << options, clock, pages, tokenKey, pc, window, buf, next_token, metrics,
           statistics_list, metric_data, results, data, file, printed, exc, log >>

----------------------------------------------------------------------------
(* Bounds of the model *)

MaxClock == 3
MaxInterval == 3
MaxAnchor == 2
MaxPages == 3
MaxPageSize == 2
MaxBatchMetrics == 11
MaxStats == 2

----------------------------------------------------------------------------
(* Values *)

\* Python's None for next_token; provider tokens are the positive numbers
NoToken == 0

\* a metric identity as the provider lists it
Metric(k) == [Namespace |-> "AWS/EC2", MetricName |-> k]

\* the provider's catalog of n metrics, in the provider's own order
Catalog(n) == [i \in 1..n |-> Metric(n + 1 - i)]

\* statistic names, as strings of characters
Average == << "A", "v", "e", "r", "a", "g", "e" >>
Sum == << "S", "u", "m" >>
P1 == << "p", "1" >>
P11 == << "p", "1", "1" >>

StatNames == { Average, Sum, P1, P11 }

\* lists of pairwise distinct statistic names, of length 0..MaxStats
DistinctStatLists ==
    { l \in UNION { [1..n -> StatNames] : n \in 0..MaxStats } :
        \A i, j \in DOMAIN l : i # j => l[i] # l[j] }

----------------------------------------------------------------------------
(* get_time_range *)

\* RichDateTime.strptime(time_str, '%Y%m%d%H%M'): the minute the string names
Strptime(time_str) == time_str.t

\* RichDateTime % timedelta: the instant rounded down to a multiple of d
RoundDown(t, d) == t - (t % d)

\* bool(time_str): None and '' are false
Truthy(time_str) == time_str.kind \in { "valid", "malformed" }

get_time_range_at_boundary(time_str, interval, now) ==
    LET d == interval
    IN  IF Truthy(time_str)
        THEN IF time_str.kind = "malformed"
             THEN [exc |-> "ValueError", start |-> 0, end |-> 0]
             ELSE LET t == Strptime(time_str)
                  IN  [exc |-> "None", start |-> t, end |-> t + d]
        ELSE IF d = 0
             THEN [exc |-> "ZeroDivisionError", start |-> 0, end |-> 0]
             ELSE LET t == RoundDown(now, d)
                  IN  [exc |-> "None", start |-> t, end |-> t + d]

get_time_range(time_str, interval, now) ==
    LET d == interval
    IN  IF Truthy(time_str)
        THEN IF time_str.kind = "malformed"
             THEN [exc |-> "ValueError", start |-> 0, end |-> 0]
             ELSE LET t == Strptime(time_str)
                  IN  [exc |-> "None", start |-> t, end |-> t + d]
        ELSE IF d = 0
             THEN [exc |-> "ZeroDivisionError", start |-> 0, end |-> 0]
             ELSE LET t == RoundDown(now, d) - d
                  IN  [exc |-> "None", start |-> t, end |-> t + d]

----------------------------------------------------------------------------
(* The provider's list_metrics and get_metrics' reading of its response *)

RECURSIVE SumSizes(_, _)
SumSizes(ps, k) == IF k = 0 THEN 0 ELSE SumSizes(ps, k - 1) + Len(ps[k])

RECURSIVE Concat(_, _)
\* the first k pages one after the other
Concat(ps, k) == IF k = 0 THEN << >> ELSE Concat(ps, k - 1) \o ps[k]

\* page index a request asks for: the first without token, else the one after
PageOf(token) == IF token = NoToken THEN 1 ELSE token + 1

\* client.list_metrics(...): a dict with 'Metrics' and, when more pages follow,
\* the continuation token under the provider's key
list_metrics(token) ==
    LET k == PageOf(token)
    IN  IF k < Len(pages)
        THEN IF tokenKey = "NextToken"
             THEN [Metrics |-> pages[k], NextToken |-> k]
             ELSE [Metrics |-> pages[k], next_token |-> k]
        ELSE [Metrics |-> pages[k]]

\* result.get('next_token'): None when the dict has no such key
get_next_token(result) ==
    IF "next_token" \in DOMAIN result THEN result["next_token"] ELSE NoToken

----------------------------------------------------------------------------
(* get_data: the query batch, the provider call and the correlation *)

\* str.lower() on one character
LowerChar(c) ==
    CASE c = "A" -> "a"
      [] c = "S" -> "s"
      [] OTHER -> c

\* stat.lower()
Lower(stat) == [i \in DOMAIN stat |-> LowerChar(stat[i])]

DigitChar == << "0", "1", "2", "3", "4", "5", "6", "7", "8", "9" >>

RECURSIVE Str(_)
\* the decimal digits of index, as the f-string formats an int
Str(index) ==
    IF index < 10
    THEN << DigitChar[index + 1] >>
    ELSE Str(index \div 10) \o << DigitChar[(index % 10) + 1] >>

\* f'{stat.lower()}{index}'
QueryId(stat, index) == Lower(stat) \o Str(index)

\* one query descriptor of the batch
Descriptor(index, metric, stat, period_in_sec) ==
    [ Id |-> QueryId(stat, index),
      MetricStat |-> [Metric |-> metric, Period |-> period_in_sec, Stat |-> stat] ]

RECURSIVE ForStat(_, _, _, _, _)
\* inner loop of the comprehension: for stat in statistics_list, up to position j
ForStat(index, metric, stats, j, period_in_sec) ==
    IF j = 0
    THEN << >>
    ELSE Append(ForStat(index, metric, stats, j - 1, period_in_sec),
                Descriptor(index, metric, stats[j], period_in_sec))

RECURSIVE ForMetric(_, _, _, _)
\* outer loop: for index, metric in enumerate(metrics), for the first k metrics
ForMetric(ms, k, stats, period_in_sec) ==
    IF k = 0
    THEN << >>
    ELSE ForMetric(ms, k - 1, stats, period_in_sec)
         \o ForStat(k - 1, ms[k], stats, Len(stats), period_in_sec)

\* the list comprehension that builds metric_data
MetricDataQueries(ms, stats, period_in_sec) ==
    ForMetric(ms, Len(ms), stats, period_in_sec)

\* the provider's result for one query
ResultFor(q) == [Id |-> q.Id, StatusCode |-> "Complete"]

\* one result per query, in the order submitted
InOrder(batch) == [i \in DOMAIN batch |-> ResultFor(batch[i])]

Reverse(s) == [i \in DOMAIN s |-> s[Len(s) + 1 - i]]

\* what data['MetricDataResults'] can be for a submitted batch: the results in
\* submitted order, reordered, cut short, or with one entry more
Responses(batch) ==
    LET full == InOrder(batch)
    IN  { full,
          Reverse(full),
          SubSeq(full, 1, Len(full) - 1),
          Append(full, [Id |-> << "x" >>, StatusCode |-> "InternalError"]) }

\* metric_data[index] raises IndexError for an index past the batch
CorrelateRaises(batch, res) == Len(res) > Len(batch)

Correlate_drop_last(batch, res) ==
    [index \in 1..(Len(res) - 1) |->
        [Data |-> res[index], Metric |-> batch[index].MetricStat.Metric]]

\* the returned list comprehension over enumerate(data['MetricDataResults'])
Correlate(batch, res) ==
    [index \in 1..Len(res) |->
        [Data |-> res[index], Metric |-> batch[index].MetricStat.Metric]]

----------------------------------------------------------------------------
(* main *)

\* default of --period
DefaultPeriod == 60

\* values --time can take: absent, empty, not in the format, or a minute
TimeStrs ==
    { [kind |-> k, t |-> 0] : k \in { "none", "empty", "malformed" } }
    \cup { [kind |-> "valid", t |-> t] : t \in 0..MaxAnchor }

Options ==
    [ time : TimeStrs,
      interval : 0..MaxInterval,
      period : { DefaultPeriod },
      check : BOOLEAN,
      filename : { "None", "snapshot.pkl" } ]

RECURSIVE SplitPages(_, _, _)
\* the catalog cut into the first k pages of the given sizes
SplitPages(cat, sizes, k) ==
    IF k = 0
    THEN << >>
    ELSE LET before == SplitPages(cat, sizes, k - 1)
             off == SumSizes(before, k - 1)
         IN  Append(before, SubSeq(cat, off + 1, off + sizes[k]))

RECURSIVE Total(_, _)
Total(sizes, k) == IF k = 0 THEN 0 ELSE Total(sizes, k - 1) + sizes[k]

\* every way the provider can serve 1..MaxPages non-overlapping pages
PageLayouts ==
    { SplitPages(Catalog(Total(sizes, Len(sizes))), sizes, Len(sizes)) :
        sizes \in UNION { [1..n -> 0..MaxPageSize] : n \in 1..MaxPages } }

NoException == [type |-> "None", where |-> "None"]

Raise(type, where) == [type |-> type, where |-> where]

NoFile == [state |-> "absent", content |-> << >>]

Call(op, token) == [op |-> op, token |-> token]

\* ((m, s) for m in metrics for s in statistics_list)
query_params(ms, stats) ==
    [k \in 1..(Len(ms) * Len(stats)) |->
        << ms[((k - 1) \div Len(stats)) + 1], stats[((k - 1) % Len(stats)) + 1] >>]

Init ==
    /\ options \in Options
    /\ clock \in 0..MaxClock
    /\ pages \in PageLayouts
    /\ tokenKey \in { "NextToken", "next_token" }
    /\ pc = "get_time_range"
    /\ window = [start |-> 0, end |-> 0]
    /\ buf = << >>
    /\ next_token = NoToken
    /\ metrics = << >>
    /\ statistics_list = << Average, Sum >>
    /\ metric_data = << >>
    /\ results = << >>
    /\ data = << >>
    /\ file = NoFile
    /\ printed = << >>
    /\ exc = NoException
    /\ log = << >>

\* line 127: start, end = get_time_range(options.time, options.interval)
MainGetTimeRange ==
    /\ pc = "get_time_range"
    /\ LET r == get_time_range(options.time, options.interval, clock)
       IN  IF r.exc = "None"
           THEN /\ window' = [start |-> r.start, end |-> r.end]
                /\ pc' = "get_metrics"
                /\ exc' = exc
           ELSE /\ window' = window
                /\ pc' = "aborted"
                /\ exc' = Raise(r.exc, "get_time_range")
    /\ UNCHANGED << options, clock, pages, tokenKey, buf, next_token, metrics,
                    statistics_list, metric_data, results, data, file, printed, log >>

\* get_metrics, one pass of the loop that ends at the break of line 44
GetMetricsReturn ==
    /\ pc = "get_metrics"
    /\ LET result == list_metrics(next_token)
       IN  /\ get_next_token(result) = NoToken
           /\ buf' = buf \o result.Metrics
           /\ metrics' = buf'
    /\ log' = Append(log, Call("list_metrics", next_token))
    /\ pc' = "branch"
    /\ UNCHANGED << options, clock, pages, tokenKey, window, next_token,
                    statistics_list, metric_data, results, data, file, printed, exc >>

\* get_metrics, one pass of the loop that reaches line 45: result is a dict and
\* has no attribute next_token
GetMetricsAttributeError ==
    /\ pc = "get_metrics"
    /\ LET result == list_metrics(next_token)
       IN  /\ get_next_token(result) # NoToken
           /\ buf' = buf \o result.Metrics
    /\ log' = Append(log, Call("list_metrics", next_token))
    /\ pc' = "aborted"
    /\ exc' = Raise("AttributeError", "get_metrics")
    /\ UNCHANGED << options, clock, pages, tokenKey, window, next_token, metrics,
                    statistics_list, metric_data, results, data, file, printed >>

\* get_metrics: boto3.client or list_metrics raises
GetMetricsProviderError ==
    /\ pc = "get_metrics"
    /\ \/ /\ log' = log
          /\ exc' = Raise("ConnectionError", "get_metrics")
       \/ /\ log' = Append(log, Call("list_metrics", next_token))
          /\ exc' = Raise("ClientError", "get_metrics")
    /\ pc' = "aborted"
    /\ UNCHANGED << options, clock, pages, tokenKey, window, buf, next_token, metrics,
                    statistics_list, metric_data, results, data, file, printed >>

\* lines 133-139: check mode prints the planned queries
MainCheck_still_queries ==
    /\ pc = "branch"
    /\ options.check
    /\ printed' = query_params(metrics, statistics_list)
    /\ log' = Append(log, Call("get_metric_data", NoToken))
    /\ pc' = "done"
    /\ UNCHANGED << options, clock, pages, tokenKey, window, buf, next_token, metrics,
                    statistics_list, metric_data, results, data, file, exc >>

MainCheck ==
    /\ pc = "branch"
    /\ options.check
    /\ printed' = query_params(metrics, statistics_list)
    /\ pc' = "done"
    /\ UNCHANGED << options, clock, pages, tokenKey, window, buf, next_token, metrics,
                    statistics_list, metric_data, results, data, file, exc, log >>

\* lines 140-142: otherwise main calls get_data
MainFetch ==
    /\ pc = "branch"
    /\ ~ options.check
    /\ pc' = "get_data"
    /\ UNCHANGED << options, clock, pages, tokenKey, window, buf, next_token, metrics,
                    statistics_list, metric_data, results, data, file, printed, exc, log >>

\* get_data, lines 54-68, when the provider answers and every result has a
\* descriptor at its position
GetDataReturn ==
    /\ pc = "get_data"
    /\ LET batch == MetricDataQueries(metrics, statistics_list, options.period)
       IN  /\ metric_data' = batch
           /\ \E res \in Responses(batch) :
                /\ ~ CorrelateRaises(batch, res)
                /\ results' = res
                /\ data' = Correlate(batch, res)
    /\ log' = Append(log, Call("get_metric_data", NoToken))
    /\ pc' = "open"
    /\ UNCHANGED << options, clock, pages, tokenKey, window, buf, next_token, metrics,
                    statistics_list, file, printed, exc >>

\* get_data when the provider answers with more results than queries:
\* metric_data[index] raises IndexError at line 68
GetDataIndexError_file_first ==
    /\ pc = "get_data"
    /\ LET batch == MetricDataQueries(metrics, statistics_list, options.period)
       IN  /\ metric_data' = batch
           /\ \E res \in Responses(batch) :
                /\ CorrelateRaises(batch, res)
                /\ results' = res
    /\ log' = Append(log, Call("get_metric_data", NoToken))
    /\ file' = [state |-> "opened", content |-> << >>]
    /\ pc' = "aborted"
    /\ exc' = Raise("IndexError", "get_data")
    /\ UNCHANGED << options, clock, pages, tokenKey, window, buf, next_token, metrics,
                    statistics_list, data, printed >>

GetDataIndexError ==
    /\ pc = "get_data"
    /\ LET batch == MetricDataQueries(metrics, statistics_list, options.period)
       IN  /\ metric_data' = batch
           /\ \E res \in Responses(batch) :
                /\ CorrelateRaises(batch, res)
                /\ results' = res
    /\ log' = Append(log, Call("get_metric_data", NoToken))
    /\ pc' = "aborted"
    /\ exc' = Raise("IndexError", "get_data")
    /\ UNCHANGED << options, clock, pages, tokenKey, window, buf, next_token, metrics,
                    statistics_list, data, file, printed >>

\* get_data: boto3.client raises (line 54), or get_metric_data does (line 62)
GetDataProviderError ==
    /\ pc = "get_data"
    /\ \/ /\ log' = log
          /\ metric_data' = metric_data
          /\ exc' = Raise("ConnectionError", "get_data")
       \/ /\ log' = Append(log, Call("get_metric_data", NoToken))
          /\ metric_data' = MetricDataQueries(metrics, statistics_list, options.period)
          /\ exc' = Raise("ClientError", "get_data")
    /\ pc' = "aborted"
    /\ UNCHANGED << options, clock, pages, tokenKey, window, buf, next_token, metrics,
                    statistics_list, results, data, file, printed >>

\* line 143: open(options.filename, 'wb') creates or truncates the file;
\* without --filename the name is None and open raises TypeError
MainOpen ==
    /\ pc = "open"
    /\ IF options.filename = "None"
       THEN /\ pc' = "aborted"
            /\ exc' = Raise("TypeError", "open")
            /\ file' = file
       ELSE /\ pc' = "dump"
            /\ exc' = exc
            /\ file' = [state |-> "opened", content |-> << >>]
    /\ UNCHANGED << options, clock, pages, tokenKey, window, buf, next_token, metrics,
                    statistics_list, metric_data, results, data, printed, log >>

\* lines 144-147: pickle.dump(data, f), the prints, return 0
MainDump ==
    /\ pc = "dump"
    /\ file' = [state |-> "written", content |-> data]
    /\ pc' = "done"
    /\ UNCHANGED << options, clock, pages, tokenKey, window, buf, next_token, metrics,
                    statistics_list, metric_data, results, data, printed, exc, log >>

Next ==
    \/ MainGetTimeRange
    \/ GetMetricsReturn
    \/ GetMetricsAttributeError
    \/ GetMetricsProviderError
    \/ MainCheck
    \/ MainFetch
    \/ GetDataReturn
    \/ GetDataIndexError
    \/ GetDataProviderError
    \/ MainOpen
    \/ MainDump

Spec == Init /\ [][Next]_vars

----------------------------------------------------------------------------
(* get_data called on its own, with any catalog and any list of distinct     *)
(* statistic names                                                          *)

InitGetData ==
    /\ options = [ time |-> [kind |-> "none", t |-> 0], interval |-> 1,
                   period |-> DefaultPeriod, check |-> FALSE, filename |-> "None" ]
    /\ clock = 0
    /\ pages = << << >> >>
    /\ tokenKey = "NextToken"
    /\ pc = "get_data"
    /\ window = [start |-> 0, end |-> 1]
    /\ buf = << >>
    /\ next_token = NoToken
    /\ \E n \in 0..MaxBatchMetrics : metrics = Catalog(n)
    /\ statistics_list \in DistinctStatLists
    /\ metric_data = << >>
    /\ results = << >>
    /\ data = << >>
    /\ file = NoFile
    /\ printed = << >>
    /\ exc = NoException
    /\ log = << >>

NextGetData ==
    \/ GetDataReturn
    \/ GetDataIndexError
    \/ GetDataProviderError

SpecGetData == InitGetData /\ [][NextGetData]_vars

----------------------------------------------------------------------------
(* Properties *)

\* the list-metrics round trips made so far
ListCalls == SelectSeq(log, LAMBDA c : c.op = "list_metrics")

\* the batched statistical queries issued so far
QueryCalls == SelectSeq(log, LAMBDA c : c.op = "get_metric_data")

\* get_time_range has returned a window
WindowResolved ==
    /\ pc # "get_time_range"
    /\ exc.where # "get_time_range"

\* get_metrics has returned its catalog to main
DiscoveryReturned ==
    \/ pc \in { "branch", "get_data", "open", "dump", "done" }
    \/ pc = "aborted" /\ exc.where \in { "get_data", "open" }

\* get_data has returned its records to main
GetDataReturned == pc \in { "open", "dump", "done" } \/ exc.where = "open"

\* C1: whenever get_metrics has returned, the catalog is the concatenation of
\* all the provider's pages in page order, and its length is the sum of the
\* page sizes.
C1_PaginationComplete ==
    DiscoveryReturned =>
        /\ metrics = Concat(pages, Len(pages))
        /\ Len(metrics) = SumSizes(pages, Len(pages))

\* C7: the first list-metrics call carries no token, call i > 1 carries the
\* token of response i - 1, and once get_metrics has returned a provider with
\* N pages has been visited in exactly N round trips.
C7_PaginationProtocol ==
    /\ \A i \in DOMAIN ListCalls :
          ListCalls[i].token = (IF i = 1 THEN NoToken ELSE i - 1)
    /\ DiscoveryReturned => Len(ListCalls) = Len(pages)

\* C4: when discovery returned zero metrics, no query descriptor is built, no
\* result record is produced and get_metric_data is never called.
C4_EmptyCatalogNoQuery ==
    (DiscoveryReturned /\ metrics = << >>) =>
        /\ metric_data = << >>
        /\ data = << >>
        /\ Len(QueryCalls) = 0

\* C5: every window get_time_range returns has end > start and is exactly the
\* configured interval long.
C5_WindowInvariant ==
    WindowResolved =>
        /\ window.end > window.start
        /\ window.end - window.start = options.interval

\* C8 as stated: without an anchor the window starts at the clock rounded
\* down to the interval boundary and is one interval long.
C8_StartAtBoundary ==
    (WindowResolved /\ ~ Truthy(options.time)) =>
        /\ window.start = clock - (clock % options.interval)
        /\ window.end = window.start + options.interval

\* C8 as amended: without an anchor the window starts one interval before the
\* clock rounded down to the interval boundary, and ends at that boundary.
C8_StartOneIntervalBeforeBoundary ==
    (WindowResolved /\ ~ Truthy(options.time)) =>
        /\ window.start = (clock - (clock % options.interval)) - options.interval
        /\ window.end = window.start + options.interval

\* a window resolved without an anchor at a clock value off the boundary
C8_Witness ==
    /\ WindowResolved
    /\ options.time.kind = "none"
    /\ options.interval = 2
    /\ clock = 3
    /\ window = [start |-> 0, end |-> 2]

\* C2: for S >= 2 statistics, when the provider returned its results in
\* submitted order, record i pairs result i with the metric and with the
\* statistic of descriptor i.
C2_RecordCarriesMetricAndStatistic ==
    (/\ GetDataReturned
     /\ Len(statistics_list) >= 2
     /\ results = InOrder(metric_data)) =>
        \A i \in DOMAIN data :
            /\ data[i].Data = results[i]
            /\ data[i].Metric = metric_data[i].MetricStat.Metric
            /\ \E f \in DOMAIN data[i] \ { "Data", "Metric" } :
                  data[i][f] = metric_data[i].MetricStat.Stat

\* C3: the batch built for M metrics and S pairwise distinct statistic names
\* has M*S descriptors and no two descriptors share an Id.
C3_BatchCardinalityAndUniqueIds ==
    Len(QueryCalls) > 0 =>
        /\ Len(metric_data) = Len(metrics) * Len(statistics_list)
        /\ \A i, j \in DOMAIN metric_data :
              i # j => metric_data[i].Id # metric_data[j].Id

C6_NoPartialOutput ==
    /\ file.state # "absent" =>
          /\ ~ options.check
          /\ DiscoveryReturned
          /\ GetDataReturned
          /\ Len(QueryCalls) = 1
          /\ Len(data) = Len(results)
    /\ (pc = "aborted" /\ exc.where \in { "get_metrics", "get_data" }) =>
          file = NoFile
    /\ file.state = "written" => file.content = data

\* a run aborted by the correlation step, after the provider answered
C6_Witness ==
    /\ pc = "aborted"
    /\ exc = Raise("IndexError", "get_data")
    /\ Len(results) > 0
    /\ options.filename # "None"
    /\ file = NoFile

\* C10: with --check discovery runs but get_metric_data is never called and
\* no file is touched; without --check get_metric_data is called at most once
\* and only after get_metrics has returned.
C10_CheckSkipsExecution ==
    /\ options.check =>
          /\ Len(QueryCalls) = 0
          /\ file = NoFile
          /\ pc = "done" => Len(ListCalls) >= 1
    /\ ~ options.check =>
          /\ Len(QueryCalls) <= 1
          /\ Len(QueryCalls) = 1 =>
                /\ DiscoveryReturned
                /\ Len(ListCalls) >= 1
                /\ \A i, j \in DOMAIN log :
                      (log[i].op = "list_metrics" /\ log[j].op = "get_metric_data")
                          => i < j

\* a finished check-mode run that printed planned queries
C10_Witness ==
    /\ options.check
    /\ pc = "done"
    /\ Len(printed) > 0
    /\ Len(ListCalls) = 1

====
